---- MODULE Spec2Model ----
(***************************************************************************)
(* Model of validar_gerar_cpf: gerar_cpf (gerador_de_cpf.py) and           *)
(* validar_cpf (validador_cpf.py).  Strings are sequences of one-character *)
(* strings; the random digits gerar_cpf draws and the argument of          *)
(* validar_cpf are chosen in the initial state, and each call is one       *)
(* action that computes the whole function.                                *)
(***************************************************************************)
EXTENDS Integers, Sequences, FiniteSets, TLC

VARIABLES
    programa,   \* the script that runs: "gerador_de_cpf" or "validador_cpf"
    chamada,    \* the last call made: "nenhuma", "gerar_cpf" or "validar_cpf"
    sorteio,    \* gerar_cpf: the values random.randint(0, 9) returns, in order
    entrada,    \* validar_cpf: the argument cpf
    g,          \* gerar_cpf: its locals and return value
    v           \* validar_cpf: its locals, return value and exception

vars == <<programa, chamada, sorteio, entrada, g, v>>

(***************************************************************************)
(* Bounds of the model.                                                    *)
(***************************************************************************)
\* trailing digits of the 9-digit base that range over 0..9 in gerar_cpf
LivresGerar == 3
\* trailing digits of the 9-digit base that range over 0..9 in validar_cpf
LivresValidar == 2
\* spaces injected into an input of validar_cpf
MaxEspacos == 3
\* single-character edits (insert, delete, replace) applied to an input
MaxEdicoes == 1

(***************************************************************************)
(* Characters and the str()/int() conversions of Python.                   *)
(***************************************************************************)
Algarismos == <<"0", "1", "2", "3", "4", "5", "6", "7", "8", "9">>

EhAlgarismo(c) == \E d \in 1..10 : Algarismos[d] = c

\* str(n) for an integer n >= 0: one character per decimal digit
RECURSIVE str(_)
str(n) == IF n < 10 THEN <<Algarismos[n + 1]>>
          ELSE str(n \div 10) \o <<Algarismos[(n % 10) + 1]>>

\* int(c) for a one-character string c that is a digit
int(c) == (CHOOSE d \in 1..10 : Algarismos[d] = c) - 1

\* Python slice s[a:b] (0-based, b exclusive, clipped to the length)
Fatia(s, a, b) == SubSeq(s, a + 1, IF b < Len(s) THEN b ELSE Len(s))

\* s.replace(c, "") for a one-character c
Remover(s, c) == SelectSeq(s, LAMBDA x : x # c)

\* characters str.strip() removes at both ends
Brancos == {" ", "\n"}

RECURSIVE strip(_)
strip(s) == IF s = <<>> THEN s
            ELSE IF Head(s) \in Brancos THEN strip(Tail(s))
            ELSE IF s[Len(s)] \in Brancos THEN strip(SubSeq(s, 1, Len(s) - 1))
            ELSE s

(***************************************************************************)
(* The weighted-sum loop shared by both functions:                         *)
(*     for i in texto: soma += int(i) * index; index -= 1                  *)
(* voltas counts the iterations; erro is set when int(i) raises.           *)
(***************************************************************************)
RECURSIVE Laco(_, _, _)
Laco(texto, index, soma) ==
    IF texto = <<>>
    THEN [soma |-> soma, index |-> index, voltas |-> 0, erro |-> FALSE]
    ELSE IF ~EhAlgarismo(Head(texto))
    THEN [soma |-> soma, index |-> index, voltas |-> 0, erro |-> TRUE]
    ELSE LET r == Laco(Tail(texto), index - 1, soma + int(Head(texto)) * index)
         IN  [r EXCEPT !.voltas = @ + 1]

\* Digito without the complement to 11
DigitoSemComplemento(soma) == soma % 11

\* digito = 11 - (soma % 11)
Digito(soma) == 11 - (soma % 11)

\* Ajustar comparing with 10 instead of 9
AjustarAcimaDeDez(digito) == IF digito > 10 THEN 0 ELSE digito

\* Ajustar left out
AjustarSemZero(digito) == digito

\* if digito > 9: digito = 0
Ajustar(digito) == IF digito > 9 THEN 0 ELSE digito

\* value of the locals a call has not assigned
LacoNulo == [soma |-> 0, index |-> 0, voltas |-> 0, erro |-> FALSE]
NaoCalculado == 0 - 1

(***************************************************************************)
(* gerar_cpf.  sorteado is the sequence of values random.randint(0, 9)     *)
(* returns, in drawing order.                                              *)
(***************************************************************************)
\* range(9) of the drawing loop
NumSorteios == 9

\* for i in range(9): cpf += str(random.randint(0, 9))
RECURSIVE Sortear(_, _)
Sortear(sorteado, n) ==
    IF n = 0 THEN <<>>
    ELSE Sortear(sorteado, n - 1) \o str(sorteado[n])

\* the text the second loop of gerar_cpf iterates: cpf[:9]+str(digito_um)
TextoDoisGerador(cpf, digito_um) == Fatia(cpf, 0, 9) \o str(digito_um)

\* f"{cpf[:3]}.{cpf[3:6]}.{cpf[6:9]}-{digito_um}{digito_dois}"
Formatar(cpf, digito_um, digito_dois) ==
    Fatia(cpf, 0, 3) \o <<".">> \o Fatia(cpf, 3, 6) \o <<".">> \o Fatia(cpf, 6, 9)
        \o <<"-">> \o str(digito_um) \o str(digito_dois)

gerar_cpf(sorteado) ==
    LET cpf       == Sortear(sorteado, NumSorteios)
        laco_um   == Laco(Fatia(cpf, 0, 9), 10, 0)
        um        == Digito(laco_um.soma)
        laco_dois == Laco(TextoDoisGerador(cpf, um), 11, 0)
        dois      == Digito(laco_dois.soma)
    IN  [cpf         |-> cpf,
         sorteios    |-> Len(cpf),
         laco_um     |-> laco_um,
         laco_dois   |-> laco_dois,
         digito_um   |-> Ajustar(um),
         digito_dois |-> Ajustar(dois),
         retorno     |-> Formatar(cpf, Ajustar(um), Ajustar(dois))]

(***************************************************************************)
(* validar_cpf.                                                            *)
(***************************************************************************)
\* a pattern is a sequence of items: "d" stands for \d, any other item for
\* that literal character
padrao_cpf == <<"d", "d", "d", ".", "d", "d", "d", ".", "d", "d", "d", "-", "d", "d">>
padrao_cpf_sem_formatacao == <<"d", "d", "d", "d", "d", "d", "d", "d", "d", "d", "d">>

CasaItem(item, c) == IF item = "d" THEN EhAlgarismo(c) ELSE item = c

\* re.match(r'^...$', texto): the items match from the first character on,
\* and $ matches at the end of the text or just before a final newline
re_match(padrao, texto) ==
    /\ Len(texto) >= Len(padrao)
    /\ \A i \in 1..Len(padrao) : CasaItem(padrao[i], texto[i])
    /\ \/ Len(texto) = Len(padrao)
       \/ Len(texto) = Len(padrao) + 1 /\ texto[Len(texto)] = "\n"

\* RemoverEspacos removing the spaces at both ends only
RemoverEspacosDasPontas(cpf) == strip(cpf)

\* cpf = cpf.replace(" ", "")
RemoverEspacos(cpf) == Remover(cpf, " ")

\* Limpar without .replace("-", "")
LimparSoPontos(cpf) == strip(Remover(cpf, "."))

\* cpf_limpo = cpf.replace(".", "").replace("-", "").strip()
Limpar(cpf) == strip(Remover(Remover(cpf, "."), "-"))

\* TextoDoisValidador slicing one character short
TextoDoisValidadorCurto(cpf_limpo) == Fatia(cpf_limpo, 0, 9)

\* the text the second loop of validar_cpf iterates: cpf_limpo[:10]
TextoDoisValidador(cpf_limpo) == Fatia(cpf_limpo, 0, 10)

Retorno(etapa, cpf, cpf_limpo, laco_um, laco_dois, um, dois, retorno, excecao) ==
    [etapa |-> etapa, cpf |-> cpf, cpf_limpo |-> cpf_limpo,
     laco_um |-> laco_um, laco_dois |-> laco_dois,
     digito_um |-> um, digito_dois |-> dois,
     retorno |-> retorno, excecao |-> excecao]

\* int(cpf_limpo[k]) raises IndexError past the end, ValueError on a non-digit
Falha(cpf_limpo, k) ==
    IF k + 1 > Len(cpf_limpo) THEN "IndexError"
    ELSE IF ~EhAlgarismo(cpf_limpo[k + 1]) THEN "ValueError"
    ELSE ""

validar_cpf(argumento) ==
    LET cpf       == RemoverEspacos(argumento)
        cpf_limpo == Limpar(cpf)
        laco_um   == Laco(Fatia(cpf_limpo, 0, 9), 10, 0)
        laco_dois == Laco(TextoDoisValidador(cpf_limpo), 11, 0)
        um        == Ajustar(Digito(laco_um.soma))
        dois      == Ajustar(Digito(laco_dois.soma))
    IN  IF ~re_match(padrao_cpf_sem_formatacao, cpf) /\ ~re_match(padrao_cpf, cpf)
        THEN Retorno("formato", cpf, <<>>, LacoNulo, LacoNulo,
                     NaoCalculado, NaoCalculado, FALSE, "")
        ELSE IF laco_um.erro
        THEN Retorno("laco_um", cpf, cpf_limpo, laco_um, LacoNulo,
                     NaoCalculado, NaoCalculado, FALSE, "ValueError")
        ELSE IF laco_dois.erro
        THEN Retorno("laco_dois", cpf, cpf_limpo, laco_um, laco_dois,
                     NaoCalculado, NaoCalculado, FALSE, "ValueError")
        ELSE IF Falha(cpf_limpo, 9) # ""
        THEN Retorno("comparacao", cpf, cpf_limpo, laco_um, laco_dois,
                     um, dois, FALSE, Falha(cpf_limpo, 9))
        ELSE IF int(cpf_limpo[10]) # um
        THEN Retorno("digitos", cpf, cpf_limpo, laco_um, laco_dois,
                     um, dois, FALSE, "")
        ELSE IF Falha(cpf_limpo, 10) # ""
        THEN Retorno("comparacao", cpf, cpf_limpo, laco_um, laco_dois,
                     um, dois, FALSE, Falha(cpf_limpo, 10))
        ELSE IF int(cpf_limpo[11]) # dois
        THEN Retorno("digitos", cpf, cpf_limpo, laco_um, laco_dois,
                     um, dois, FALSE, "")
        ELSE Retorno("valido", cpf, cpf_limpo, laco_um, laco_dois,
                     um, dois, TRUE, "")

(***************************************************************************)
(* Inputs.  The digit sequences are those of the CPFs written in the       *)
(* source, with their trailing digits ranging over 0..9.                   *)
(***************************************************************************)
\* the 9-digit bases of "123.456.789-09", "614.826.255-02" and "14538220620"
Sementes == {<<1, 2, 3, 4, 5, 6, 7, 8, 9>>,
             <<6, 1, 4, 8, 2, 6, 2, 5, 5>>,
             <<1, 4, 5, 3, 8, 2, 2, 0, 6>>}

\* a seed with its last `livres` digits replaced by t
Base(semente, livres, t) == SubSeq(semente, 1, 9 - livres) \o t

\* the arguments the source passes to validar_cpf (docstring and __main__)
maria == <<"6", "1", "4", ".", "8", "2", "6", ".", "2", "5", "5", "-", "0", "2">>
joao == <<" ", " ", "1", "4", "5", " ", "3", "8", "2", "2", " ", "0", "6", "2", "0">>
valido_formatado == <<"1", "2", "3", ".", "4", "5", "6", ".", "7", "8", "9", "-", "0", "9">>
valido_sem_formatacao == <<"1", "2", "3", "4", "5", "6", "7", "8", "9", "0", "9">>
formato_invalido == <<"1", "2", "3", ".", "4", "5", "6", ".", "7", "8", "9">>
com_letras == <<"a", "b", "c", ".", "d", "e", "f", ".", "g", "h", "i", "-", "j", "k">>
docstring_invalido == <<"1", "2", "3", ".", "4", "5", "6", ".", "7", "8", "9", "-", "1", "0">>
docstring_sem_formatacao == <<"1", "2", "3", "4", "5", "6", "7", "8", "9", "1", "0">>

Exemplos == {maria, joao, valido_formatado, valido_sem_formatacao,
             formato_invalido, com_letras, docstring_invalido, docstring_sem_formatacao}

\* the text of a sequence of digits
RECURSIVE Texto(_)
Texto(ds) == IF ds = <<>> THEN <<>> ELSE str(Head(ds)) \o Texto(Tail(ds))

\* an 11-character text with the separators of DDD.DDD.DDD-DD put in
ComSeparadores(t) ==
    SubSeq(t, 1, 3) \o <<".">> \o SubSeq(t, 4, 6) \o <<".">> \o SubSeq(t, 7, 9)
        \o <<"-">> \o SubSeq(t, 10, 11)

\* an 11-character text with the spaces of "  145 3822 0620" put in
ComoJoao(t) ==
    <<" ", " ">> \o SubSeq(t, 1, 3) \o <<" ">> \o SubSeq(t, 4, 7) \o <<" ">> \o SubSeq(t, 8, 11)

\* characters an edit may put into an input
Alfabeto == {" ", "\n", ".", "-", "a", "5"}

Inserir(s, p, c) == SubSeq(s, 1, p) \o <<c>> \o SubSeq(s, p + 1, Len(s))
Apagar(s, p) == SubSeq(s, 1, p - 1) \o SubSeq(s, p + 1, Len(s))

\* one edit: insert c before position p + 1, delete or replace the character
\* at position p; a position outside the text leaves it as it is
Edicoes == {"nada", "inserir", "apagar", "trocar"}

Aplicar(s, tipo, p, c) ==
    IF tipo = "inserir" /\ p <= Len(s) THEN Inserir(s, p, c)
    ELSE IF tipo = "apagar" /\ p \in 1..Len(s) THEN Apagar(s, p)
    ELSE IF tipo = "trocar" /\ p \in 1..Len(s) THEN Inserir(Apagar(s, p), p - 1, c)
    ELSE s

\* the edits es[1], es[2], ... applied in order
RECURSIVE Editar(_, _)
Editar(s, es) ==
    IF es = <<>> THEN s
    ELSE LET e == es[Len(es)]
         IN  Aplicar(Editar(s, SubSeq(es, 1, Len(es) - 1)), e.tipo, e.p, e.c)

\* a space inserted at each of the positions ps[1], ps[2], ... in order
RECURSIVE Espacar(_, _)
Espacar(s, ps) ==
    IF ps = <<>> THEN s
    ELSE Aplicar(Espacar(s, SubSeq(ps, 1, Len(ps) - 1)), "inserir", ps[Len(ps)], " ")

\* positions of an edit: up to the length of the longest example
Posicoes == 0..15

(***************************************************************************)
(* State, initial states and calls.                                        *)
(***************************************************************************)
\* g and v before the call that assigns them
SemGerar == [cpf |-> <<>>, sorteios |-> 0, laco_um |-> LacoNulo, laco_dois |-> LacoNulo,
             digito_um |-> NaoCalculado, digito_dois |-> NaoCalculado, retorno |-> <<>>]
SemValidar == Retorno("", <<>>, <<>>, LacoNulo, LacoNulo,
                      NaoCalculado, NaoCalculado, FALSE, "")

Parado ==
    /\ chamada = "nenhuma"
    /\ g = SemGerar
    /\ v = SemValidar

\* gerador_de_cpf.py run as a program: the draws are fixed, nothing is called yet
InitGerador ==
    /\ programa = "gerador_de_cpf"
    /\ \E s \in Sementes, t \in [1..LivresGerar -> 0..9] :
          sorteio = Base(s, LivresGerar, t)
    /\ entrada = <<>>
    /\ Parado

\* validar_cpf called on a well-shaped argument: raw, with separators, raw with
\* the spaces of "  145 3822 0620", with separators and a space inside a group
InitValidador ==
    /\ programa = "validador_cpf"
    /\ sorteio = <<>>
    /\ \E s \in Sementes, t \in [1..LivresValidar -> 0..9], x \in 0..9, y \in 0..9 :
          LET texto == Texto(Base(s, LivresValidar, t) \o <<x, y>>)
          IN  entrada \in {texto, ComSeparadores(texto),
                            ComoJoao(texto), Inserir(ComSeparadores(texto), 1, " ")}
    /\ Parado

\* validar_cpf called on an arbitrary argument: an example of the source
\* edited, or with spaces injected
InitEntradas ==
    /\ programa = "validador_cpf"
    /\ sorteio = <<>>
    /\ \E e \in Exemplos :
          \/ \E es \in [1..MaxEdicoes -> [tipo : Edicoes, p : Posicoes, c : Alfabeto]] :
                entrada = Editar(e, es)
          \/ \E ps \in [1..MaxEspacos -> Posicoes] :
                entrada = Espacar(e, ps)
    /\ Parado

Init == InitGerador \/ InitValidador

\* cpf_teste = gerar_cpf()
Gerar ==
    /\ programa = "gerador_de_cpf"
    /\ chamada = "nenhuma"
    /\ g' = gerar_cpf(sorteio)
    /\ chamada' = "gerar_cpf"
    /\ UNCHANGED <<programa, sorteio, entrada, v>>

\* validar_cpf(cpf_teste)
ValidarGerado ==
    /\ programa = "gerador_de_cpf"
    /\ chamada = "gerar_cpf"
    /\ entrada' = g.retorno
    /\ v' = validar_cpf(g.retorno)
    /\ chamada' = "validar_cpf"
    /\ UNCHANGED <<programa, sorteio, g>>

\* validar_cpf(entrada)
Validar ==
    /\ programa = "validador_cpf"
    /\ chamada = "nenhuma"
    /\ v' = validar_cpf(entrada)
    /\ chamada' = "validar_cpf"
    /\ UNCHANGED <<programa, sorteio, entrada, g>>

NextGerador == Gerar \/ ValidarGerado
NextValidador == Validar
Next == Gerar \/ ValidarGerado \/ Validar

Spec == Init /\ [][Next]_vars
SpecGerador == InitGerador /\ [][NextGerador]_vars
SpecValidador == InitValidador /\ [][NextValidador]_vars
SpecEntradas == InitEntradas /\ [][NextValidador]_vars

(***************************************************************************)
(* The Checksum Engine of the specification (section 4.1) and the shapes   *)
(* of section 4.3, written from the specification's text: the reference    *)
(* the properties below compare the code with.                             *)
(***************************************************************************)
\* sum of digit_i * weight_i, the weights going down from peso
RECURSIVE SomaPonderada(_, _)
SomaPonderada(ds, peso) ==
    IF ds = <<>> THEN 0 ELSE Head(ds) * peso + SomaPonderada(Tail(ds), peso - 1)

DigitoVerificador(ds, peso) ==
    LET d == 11 - (SomaPonderada(ds, peso) % 11) IN IF d > 9 THEN 0 ELSE d

EngineUm(base) == DigitoVerificador(base, 10)
EngineDois(base) == DigitoVerificador(base \o <<EngineUm(base)>>, 11)

DecimalDe(c) ==
    CASE c = "0" -> 0 [] c = "1" -> 1 [] c = "2" -> 2 [] c = "3" -> 3 [] c = "4" -> 4
      [] c = "5" -> 5 [] c = "6" -> 6 [] c = "7" -> 7 [] c = "8" -> 8 [] c = "9" -> 9

EhDecimal(c) == c \in {"0", "1", "2", "3", "4", "5", "6", "7", "8", "9"}

\* the text without its space characters
RECURSIVE SemEspacos(_)
SemEspacos(s) ==
    IF s = <<>> THEN <<>>
    ELSE IF Head(s) = " " THEN SemEspacos(Tail(s))
    ELSE <<Head(s)>> \o SemEspacos(Tail(s))

\* the decimal digits of the text, in order, as numbers
RECURSIVE DigitosDe(_)
DigitosDe(s) ==
    IF s = <<>> THEN <<>>
    ELSE IF EhDecimal(Head(s)) THEN <<DecimalDe(Head(s))>> \o DigitosDe(Tail(s))
    ELSE DigitosDe(Tail(s))

\* shape (b): exactly 11 decimal digits
FormaCrua(s) == Len(s) = 11 /\ \A i \in 1..11 : EhDecimal(s[i])

\* shape (a): exactly DDD.DDD.DDD-DD
FormaComSeparadores(s) ==
    /\ Len(s) = 14
    /\ s[4] = "." /\ s[8] = "." /\ s[12] = "-"
    /\ \A i \in (1..14) \ {4, 8, 12} : EhDecimal(s[i])

FormaAceita(s) == FormaCrua(s) \/ FormaComSeparadores(s)

TemEspaco(s) == \E i \in 1..Len(s) : s[i] = " "

\* a space with a digit on each side
TemEspacoEntreDigitos(s) ==
    \E i \in 2..(Len(s) - 1) : s[i] = " " /\ EhDecimal(s[i - 1]) /\ EhDecimal(s[i + 1])

Gerou == programa = "gerador_de_cpf" /\ chamada \in {"gerar_cpf", "validar_cpf"}
Validou == chamada = "validar_cpf"
\* validar_cpf got past the format check and computed both digits
Calculou == Validou /\ v.etapa \in {"digitos", "valido"}
Volta(soma) == soma % 11 \in {0, 1}

(***************************************************************************)
(* Properties.                                                             *)
(***************************************************************************)

\* C1: the string gerar_cpf returns is accepted by validar_cpf, for every base
\* it can draw.
C1_IdaEVolta ==
    (programa = "gerador_de_cpf" /\ Validou) => (v.excecao = "" /\ v.retorno = TRUE)

\* C2: the two check digits gerar_cpf emits are the Checksum Engine's check
\* digits 1 and 2 for the base drawn.
C2_DigitosDoGerador ==
    Gerou => (g.digito_um = EngineUm(sorteio) /\ g.digito_dois = EngineDois(sorteio))

\* C3: on an input that is shape-valid once its spaces are removed, validar_cpf
\* returns True exactly when the 10th and 11th digits are the Checksum Engine's
\* check digits for the first 9 digits, and False otherwise.
C3_ValidoSseDigitosConferem ==
    (Validou /\ FormaAceita(SemEspacos(entrada))) =>
        LET ds   == DigitosDe(entrada)
            base == SubSeq(ds, 1, 9)
        IN  /\ v.excecao = ""
            /\ v.retorno = (ds[10] = EngineUm(base) /\ ds[11] = EngineDois(base))

C3_Witness ==
    /\ Validou /\ FormaAceita(SemEspacos(entrada)) /\ TemEspaco(entrada)
    /\ v.retorno = TRUE
    /\ Volta(v.laco_um.soma)

\* C4: validar_cpf never raises, and an input that, with its spaces removed, is
\* neither exactly DDD.DDD.DDD-DD nor exactly 11 digits is rejected with False at
\* the format check.
C4_FormatoRejeitado ==
    Validou =>
        /\ v.excecao = ""
        /\ ~FormaAceita(SemEspacos(entrada)) => (v.retorno = FALSE /\ v.etapa = "formato")

\* C5: gerar_cpf returns exactly 14 characters, DDD.DDD.DDD-DD: the drawn digits
\* in drawing order in groups of 3, then "-", then its two check digits, each as
\* one decimal character.
C5_FormaDoGerado ==
    Gerou =>
        /\ Len(g.retorno) = 14
        /\ FormaComSeparadores(g.retorno)
        /\ g.digito_um \in 0..9 /\ g.digito_dois \in 0..9
        /\ DigitosDe(g.retorno) = sorteio \o <<g.digito_um, g.digito_dois>>

C5_Witness ==
    Gerou /\ Volta(g.laco_um.soma) /\ Volta(g.laco_dois.soma)

\* C6: validar_cpf gives an input and the same input without its spaces the
\* same answer, wherever the spaces are.
C6_EspacosNaoImportam ==
    Validou =>
        LET limpo == validar_cpf(SemEspacos(entrada))
        IN  v.retorno = limpo.retorno /\ v.excecao = limpo.excecao

C6_Witness ==
    Validou /\ TemEspacoEntreDigitos(entrada) /\ v.retorno = TRUE

\* C7: validar_cpf gives the form DDD.DDD.DDD-DD and the raw 11-digit form of
\* the same digits the same answer.
C7_FormaNaoImporta ==
    /\ (Validou /\ FormaComSeparadores(entrada)) =>
            LET cru == validar_cpf(Texto(DigitosDe(entrada)))
            IN  v.retorno = cru.retorno /\ v.excecao = cru.excecao
    /\ (Validou /\ FormaCrua(entrada)) =>
            LET pontuado == validar_cpf(ComSeparadores(entrada))
            IN  v.retorno = pontuado.retorno /\ v.excecao = pontuado.excecao

C7_Witness ==
    Validou /\ FormaComSeparadores(entrada) /\ v.retorno = TRUE

\* C8: at both call sites a weighted sum with remainder 0 or 1 modulo 11 gives
\* check digit 0, and every final check digit is in 0..9.
C8_VoltaAZero ==
    /\ Gerou =>
        /\ Volta(g.laco_um.soma) => g.digito_um = 0
        /\ Volta(g.laco_dois.soma) => g.digito_dois = 0
        /\ g.digito_um \in 0..9 /\ g.digito_dois \in 0..9
    /\ Calculou =>
        /\ Volta(v.laco_um.soma) => v.digito_um = 0
        /\ Volta(v.laco_dois.soma) => v.digito_dois = 0
        /\ v.digito_um \in 0..9 /\ v.digito_dois \in 0..9

C8_Witness ==
    /\ Gerou /\ Calculou
    /\ Volta(g.laco_um.soma) /\ g.digito_um = 0
    /\ Volta(v.laco_um.soma) /\ v.digito_um = 0
    /\ Volta(v.laco_dois.soma) /\ v.digito_dois = 0

\* C9 as stated: the check digit 2 validar_cpf computes is the Checksum Engine's
\* check digit 2 for the base, even when the supplied 10th digit is wrong.
C9_DoisDoDigitoCalculado ==
    Calculou => v.digito_dois = EngineDois(SubSeq(DigitosDe(entrada), 1, 9))

\* C9 amended: the check digit 2 validar_cpf computes is derived from the first
\* ten digits of the input (digits 1-9 and the supplied 10th digit); it is the
\* Checksum Engine's check digit 2 for the base whenever the supplied 10th digit
\* is the check digit 1 validar_cpf computed, and when it is not validar_cpf
\* returns False.
C9_DoisDoDigitoFornecido ==
    Calculou =>
        LET ds == DigitosDe(entrada)
        IN  /\ v.digito_dois = DigitoVerificador(SubSeq(ds, 1, 10), 11)
            /\ ds[10] = v.digito_um =>
                   v.digito_dois = EngineDois(SubSeq(ds, 1, 9))
            /\ ds[10] # v.digito_um => v.retorno = FALSE

C9_Witness ==
    /\ Calculou
    /\ DigitosDe(entrada)[10] # v.digito_um
    /\ v.digito_dois # EngineDois(SubSeq(DigitosDe(entrada), 1, 9))

\* C10: the loops run a fixed number of iterations whatever the digits: 9 draws,
\* 9 for check digit 1, exactly 10 for check digit 2, whose weight never drops
\* below 2 (the weight last used is the final index plus one).
C10_VoltasFixas ==
    /\ Gerou =>
        /\ g.sorteios = 9
        /\ g.laco_um.voltas = 9
        /\ g.laco_dois.voltas = 10 /\ g.laco_dois.index + 1 >= 2
    /\ Calculou =>
        /\ v.laco_um.voltas = 9
        /\ v.laco_dois.voltas = 10 /\ v.laco_dois.index + 1 >= 2

====
